---- MODULE Spec2Model ----
(***************************************************************************)
(* PharmaGuard notification service (packages/notification-service).       *)
(* Each instance consumes the Kafka telemetry stream, classifies every     *)
(* record, debounces alerts in alertHistory, enriches CRITICAL alerts via  *)
(* the risk FaaS and broadcasts packets with io.emit; the Redis adapter    *)
(* carries the packets of one instance to the sockets of the others.       *)
(*                                                                         *)
(* Numbers: temperature in degrees C and vibration in G are integers, the  *)
(* clock (Date.now()) is in milliseconds.                                  *)
(***************************************************************************)
EXTENDS Integers, Sequences, FiniteSets, TLC

VARIABLES
    clock,        \* Date.now()
    topic,        \* the messages written to the Kafka topic telemetry-stream
    stream,       \* stream[i]: messages of the partitions assigned to i, not yet resolved
    pc,           \* pc[i]: position of the eachMessage handler of instance i
    cur,          \* cur[i]: locals of the suspended eachMessage handler
    failed,       \* failed[i]: an eachMessage invocation ended with an exception
    truckState,   \* truckState[i]: the object truckState, entries in insertion order
    alertHistory, \* alertHistory[i]: the object alertHistory, entries in insertion order
    log,          \* log[i]: the effects of instance i in program order (history)
    redis,        \* redis[i]: state of the Redis adapter of instance i
    net,          \* net[i]: packets published to Redis, not yet received by instance i
    conn,         \* conn[s]: where socket s is connected
    received,     \* received[s]: packets sent to socket s, in order
    rabbit,       \* rabbit[i]: state of the RabbitMQ consumer of instance i
    queue,        \* queue[i]: events in the exclusive queue of instance i
    published,    \* number of events published to the exchange pharmaguard_events
    kafka,        \* kafka[i]: state of the Kafka consumer of instance i
    up,           \* up[svc]: the service (Kafka, RabbitMQ, Redis) accepts connections
    timers,       \* timers[i]: the pending setTimeout callbacks of instance i, in due order
    failures,     \* failures[i][svc]: failed attempts of instance i to reach the service
    orders,       \* the table Orders of the order service; the id of an order is its index
    orderChannel, \* the RabbitMQ channel of the order service
    orderLog,     \* the commits, publishes and responses of the order service (history)
    rooms         \* rooms[s]: the rooms that socket s has joined

vars == <<clock, topic, stream, pc, cur, failed, truckState, alertHistory,
          log, redis, net, conn, received, rabbit, queue, published,
          kafka, up, timers, failures, orders, orderChannel, orderLog, rooms>>

\* the state of the start-up of the consumers
startup == <<kafka, up, timers, failures>>

\* the state of the order service
orderVars == <<orders, orderChannel, orderLog>>

(***************************************************************************)
(* Bounds of the model                                                     *)
(***************************************************************************)
MaxMsgs == 3
MaxEvents == 2
MaxClusterMsgs == 1
MaxSnapshotMsgs == 2
MaxFailures == 2
MaxClassifyMsgs == 2
MaxRequests == 4
MaxOrders == 1
MaxIsolationEvents == 1
MaxRoomMsgs == 1
MaxRoomEvents == 1
MaxAuthRequests == 3

Instances == {"A", "B"}
Services == {"kafka", "rabbit"}
Backends == Services \cup {"redis"}
Trucks == {"TRUCK-101", "TRUCK-202"}
Sockets == {"s1", "s2"}
Rooms == {"ana", "max"}
TimePoints == {0, 2000, 60000}
\* <<temperature, vibration>> of the records of each truck: TRUCK-101 runs
\* at about 4 degrees, TRUCK-202 starts at -2 degrees
Readings ==
    [t \in Trucks |-> IF t = "TRUCK-101" THEN {<<8, 4>>, <<9, 1>>, <<5, 5>>} ELSE {<<-2, 5>>}]
RiskBodies == {"risk-report"}

(***************************************************************************)
(* Program constants                                                       *)
(***************************************************************************)
TempMax == 8
TempMin == 2
VibrationMax == 4
DebounceMs == 60000
FaasTimeout == 2000

Null == "null"
Undefined == "undefined"

(***************************************************************************)
(* JavaScript objects used as maps: a sequence of [key, val] entries in    *)
(* insertion order.                                                        *)
(***************************************************************************)
Keys(obj) == {obj[k].key : k \in 1..Len(obj)}

Has(obj, key) == key \in Keys(obj)

Get(obj, key) == obj[CHOOSE k \in 1..Len(obj) : obj[k].key = key].val

\* an existing entry is not overwritten
Put_FirstWins(obj, key, val) ==
    IF Has(obj, key) THEN obj ELSE Append(obj, [key |-> key, val |-> val])

Put(obj, key, val) ==
    IF Has(obj, key)
    THEN [k \in 1..Len(obj) |-> IF obj[k].key = key THEN [key |-> key, val |-> val] ELSE obj[k]]
    ELSE Append(obj, [key |-> key, val |-> val])

\* the entry is left in place
Delete_KeepsEntry(obj, key) == obj

Delete(obj, key) == SelectSeq(obj, LAMBDA e : e.key # key)

Values(obj) == [k \in 1..Len(obj) |-> obj[k].val]

(***************************************************************************)
(* Telemetry messages.  value is the message body: text that is not JSON,  *)
(* the JSON value null, or a JSON object with the fields listed in         *)
(* fields.                                                                 *)
(***************************************************************************)
AllFields == {"truckId", "temperature", "vibration"}

Record(t, temp, vib) ==
    [kind |-> "object", fields |-> AllFields, truckId |-> t, temperature |-> temp, vibration |-> vib]

WellFormed == UNION {{Record(t, r[1], r[2]) : r \in Readings[t]} : t \in Trucks}

Malformed ==
    { [kind |-> "garbage", fields |-> {}, truckId |-> Undefined, temperature |-> 0, vibration |-> 0],
      [kind |-> "null", fields |-> {}, truckId |-> Undefined, temperature |-> 0, vibration |-> 0],
      [kind |-> "object", fields |-> {"truckId"}, truckId |-> "TRUCK-101", temperature |-> 0, vibration |-> 0] }

Bodies == WellFormed \cup Malformed

IsWellFormed(v) == v.kind = "object" /\ v.fields = AllFields

\* JSON.parse(message.value.toString()) throws on text that is not JSON
ParseThrows(v) == v.kind = "garbage"

\* data.truckId throws a TypeError when data is null
DerefThrows(v) == v.kind = "null"

\* the threshold itself counts as exceeded
Gt_OrEqual(data, f, c) == f \in data.fields /\ data[f] >= c

\* a comparison with a missing (undefined) field is false
Gt(data, f, c) == f \in data.fields /\ data[f] > c
Lt(data, f, c) == f \in data.fields /\ data[f] < c

TruckIdOf(data) == IF "truckId" \in data.fields THEN data.truckId ELSE Undefined

(***************************************************************************)
(* Classification                                                          *)
(***************************************************************************)
TempIssue(data) == Gt(data, "temperature", TempMax) \/ Lt(data, "temperature", TempMin)

ShockIssue(data) == Gt(data, "vibration", VibrationMax)

Issues(data) ==
    (IF TempIssue(data) THEN <<[issue |-> "Temperature deviation", value |-> data.temperature]>> ELSE <<>>)
    \o (IF ShockIssue(data) THEN <<[issue |-> "High Shock Detected", value |-> data.vibration]>> ELSE <<>>)

AlertType(data) ==
    IF ShockIssue(data) THEN "CRITICAL"
    ELSE IF TempIssue(data) THEN "WARNING"
    ELSE "INFO"

(***************************************************************************)
(* Debounce                                                                *)
(***************************************************************************)
\* the severity of the last alert is not compared
IsSpam_AnySeverity(hist, truckId, type, now) ==
    /\ Has(hist, truckId)
    /\ now - Get(hist, truckId).timestamp < DebounceMs

IsSpam(hist, truckId, type, now) ==
    /\ Has(hist, truckId)
    /\ Get(hist, truckId).type = type
    /\ now - Get(hist, truckId).timestamp < DebounceMs

\* the suppressed candidate takes the place of the last alert
Suppressed_Refreshes(hist, truckId, type, now) ==
    Put(hist, truckId, [timestamp |-> now, type |-> type])

\* if (isSpam) return;
Suppressed(hist, truckId, type, now) == hist

(***************************************************************************)
(* Broadcast                                                               *)
(***************************************************************************)
Emits(l) == SelectSeq(l, LAMBDA e : e.op = "emit")

\* the instances that deliver a packet emitted by i: i itself and, when the
\* Redis adapter of i is attached, the instances subscribed at that moment
Subscribers(i) ==
    IF redis[i] = "attached" THEN {j \in Instances : redis[j] = "attached"} ELSE {i}

\* io.to(data.userId).emit: the packet goes to the room of one user
Scope_UserRoom(cause) == IF cause[1] = "connection" THEN cause[2] ELSE "ana"

\* io.emit addresses every socket; socket.emit addresses the room that has
\* the id of the socket
Scope(cause) == IF cause[1] = "connection" THEN cause[2] ELSE "ALL"

\* socket s is in the room that the packet addresses
InScope(s, p) == p.scope = "ALL" \/ p.scope = s \/ p.scope \in rooms[s]

\* the packets of ps that socket s is sent
ForSocket(s, ps) == SelectSeq(ps, LAMBDA p : InScope(s, p))

\* src, n: the n-th io.emit of instance src; cause: the message that led to
\* it; to, audience: the instances and sockets reached at the time of the emit
Packet(i, n, ch, cause, body) ==
    [src |-> i, n |-> n, ch |-> ch, cause |-> cause, body |-> body,
     scope |-> Scope(cause),
     to |-> Subscribers(i), audience |-> {s \in Sockets : conn[s] \in Subscribers(i)}]

Ev(op, cause, arg) == [op |-> op, cause |-> cause, arg |-> arg]

\* the in-memory adapter: nothing leaves the instance
NetAfter_LocalOnly(i, ps) == net

\* the instance also handles its own packets when they come back from Redis
NetAfter_OwnPackets(i, ps) ==
    [j \in Instances |->
        IF j \in Subscribers(i) /\ redis[i] = "attached" THEN net[j] \o ps ELSE net[j]]

\* io.emit of the packets ps by instance i: to the local sockets, and
\* through Redis to the instances whose adapter is subscribed
NetAfter(i, ps) ==
    [j \in Instances |->
        IF j # i /\ j \in Subscribers(i) THEN net[j] \o ps ELSE net[j]]

ReceivedAfter(i, ps) ==
    [s \in Sockets |-> IF conn[s] = i THEN received[s] \o ForSocket(s, ps) ELSE received[s]]

Alert(c, time, riskData) ==
    [id |-> c.now, truckId |-> TruckIdOf(c.data), time |-> time, type |-> c.type,
     message |-> c.issues, riskData |-> riskData]

\* the packet is emitted before truckState is written
StoreAndUpdate_EmitFirst(cause, data, update) ==
    <<Ev("emit", cause, update), Ev("store", cause, data)>>

\* one object shared by all the instances
Owners_Shared(i) == Instances

\* const truckState = {}; const alertHistory = {}: objects of the process
Owners(i) == {i}

\* an assignment to, or a delete from, an in-memory object of instance i
InMemory(store, i, val) ==
    [j \in Instances |-> IF j \in Owners(i) THEN val ELSE store[j]]

\* truckState[truckId] = data; io.emit('truck_update', data)
StoreAndUpdate(cause, data, update) ==
    <<Ev("store", cause, data), Ev("emit", cause, update)>>

\* the alert is emitted inside the try block, after the risk call
AlertAfterRisk_InsideTry(outcome, alert) ==
    IF outcome = "success" THEN <<alert>> ELSE <<>>

\* the packets emitted after the try/catch around the risk FaaS call
AlertAfterRisk(outcome, alert) == <<alert>>

NoCur ==
    [off |-> 0, now |-> 0, type |-> "INFO", issues |-> <<>>,
     data |-> [kind |-> "none", fields |-> {}, truckId |-> Undefined, temperature |-> 0, vibration |-> 0]]

(***************************************************************************)
(* Initial state: the servers listen, no Redis adapter is attached yet,    *)
(* the maps are empty.                                                     *)
(***************************************************************************)
Init ==
    /\ clock = 0
    /\ topic = <<>>
    /\ stream = [i \in Instances |-> <<>>]
    /\ pc = [i \in Instances |-> "idle"]
    /\ cur = [i \in Instances |-> NoCur]
    /\ failed = [i \in Instances |-> FALSE]
    /\ truckState = [i \in Instances |-> <<>>]
    /\ alertHistory = [i \in Instances |-> <<>>]
    /\ log = [i \in Instances |-> <<>>]
    /\ redis = [i \in Instances |-> "connecting"]
    /\ net = [i \in Instances |-> <<>>]
    /\ conn = [s \in Sockets |-> "new"]
    /\ received = [s \in Sockets |-> <<>>]
    /\ rabbit = [i \in Instances |-> "connecting"]
    /\ queue = [i \in Instances |-> <<>>]
    /\ published = 0
    /\ kafka = [i \in Instances |-> "connecting"]
    /\ up = [svc \in Backends |-> TRUE]
    /\ timers = [i \in Instances |-> <<>>]
    /\ failures = [i \in Instances |-> [svc \in Services |-> 0]]
    /\ orders = <<>>
    /\ orderChannel = "starting"
    /\ orderLog = <<>>
    /\ rooms = [s \in Sockets |-> {}]

(***************************************************************************)
(* The telemetry service writes a message to the topic; Kafka hands it to  *)
(* the instance of the consumer group that owns the partition.             *)
(***************************************************************************)
Produce(i, v) ==
    /\ Len(topic) < MaxMsgs
    /\ topic' = Append(topic, [value |-> v, consumer |-> i])
    /\ stream' = [stream EXCEPT ![i] = Append(@, [offset |-> Len(topic) + 1, value |-> v])]
    /\ UNCHANGED <<clock, pc, cur, failed, truckState, alertHistory, log, redis, net, conn, received>>
    /\ UNCHANGED <<rabbit, queue, published>>
    /\ UNCHANGED startup
    /\ UNCHANGED orderVars
    /\ UNCHANGED rooms

(***************************************************************************)
(* eachMessage, from its start to its first await or its return.  kafkajs  *)
(* awaits the handler before it calls it for the next message, and does    *)
(* not resolve the offset of a message whose handler threw: the message is *)
(* fetched again.                                                          *)
(***************************************************************************)
\* the next message is handled while the handler of the last one is suspended
CanIngest_WhilePending(i) == TRUE

\* kafkajs awaits eachMessage before it calls it for the next message
CanIngest(i) == pc[i] = "idle"

\* the risk FaaS is called for every alert that is not suppressed
CallsRisk_AnyAlert(type) == TRUE

\* if (type === 'CRITICAL')
CallsRisk(type) == type = "CRITICAL"

EachMessage(i) ==
    /\ kafka[i] = "running"
    /\ CanIngest(i)
    /\ stream[i] # <<>>
    /\ LET m == Head(stream[i])
           data == m.value
           cause == <<"telemetry", m.offset>>
       IN  IF ParseThrows(data) \/ DerefThrows(data)
           THEN /\ failed' = [failed EXCEPT ![i] = TRUE]
                /\ UNCHANGED <<stream, pc, cur, truckState, alertHistory, log, net, received>>
           ELSE LET truckId == TruckIdOf(data)
                    n == Len(Emits(log[i]))
                    update == Packet(i, n + 1, "truck_update", cause, data)
                    issues == Issues(data)
                    type == AlertType(data)
                    now == clock
                    c == [off |-> m.offset, now |-> now, type |-> type, issues |-> issues, data |-> data]
                    alert == Packet(i, n + 2, "notification", cause, Alert(c, clock, Null))
                    first == StoreAndUpdate(cause, data, update)
                IN  /\ stream' = [stream EXCEPT ![i] = Tail(@)]
                    /\ truckState' = InMemory(truckState, i, Put(truckState[i], truckId, data))
                    /\ UNCHANGED failed
                    /\ IF Len(issues) = 0
                       THEN /\ alertHistory' = InMemory(alertHistory, i, Delete(alertHistory[i], truckId))
                            /\ log' = [log EXCEPT ![i] = @ \o first \o <<Ev("clear", cause, truckId)>>]
                            /\ net' = NetAfter(i, <<update>>)
                            /\ received' = ReceivedAfter(i, <<update>>)
                            /\ UNCHANGED <<pc, cur>>
                       ELSE IF IsSpam(alertHistory[i], truckId, type, now)
                       THEN /\ log' = [log EXCEPT ![i] = @ \o first \o <<Ev("spam", cause, c)>>]
                            /\ net' = NetAfter(i, <<update>>)
                            /\ received' = ReceivedAfter(i, <<update>>)
                            /\ alertHistory' = InMemory(alertHistory, i,
                                                   Suppressed(alertHistory[i], truckId, type, now))
                            /\ UNCHANGED <<pc, cur>>
                       ELSE /\ alertHistory' = InMemory(alertHistory, i,
                                                   Put(alertHistory[i], truckId, [timestamp |-> now, type |-> type]))
                            /\ IF CallsRisk(type)
                               THEN /\ log' = [log EXCEPT ![i] = @ \o first
                                                   \o <<Ev("fire", cause, c), Ev("risk-call", cause, c)>>]
                                    /\ net' = NetAfter(i, <<update>>)
                                    /\ received' = ReceivedAfter(i, <<update>>)
                                    /\ pc' = [pc EXCEPT ![i] = "awaitRisk"]
                                    /\ cur' = [cur EXCEPT ![i] = c]
                               ELSE /\ log' = [log EXCEPT ![i] = @ \o first
                                                   \o <<Ev("fire", cause, c), Ev("emit", cause, alert)>>]
                                    /\ net' = NetAfter(i, <<update, alert>>)
                                    /\ received' = ReceivedAfter(i, <<update, alert>>)
                                    /\ UNCHANGED <<pc, cur>>
    /\ UNCHANGED <<clock, topic, redis, conn, rabbit, queue, published>>
    /\ UNCHANGED startup
    /\ UNCHANGED orderVars
    /\ UNCHANGED rooms

(***************************************************************************)
(* eachMessage, from the end of await axios.post(RISK_FAAS_URL) to its     *)
(* return.                                                                 *)
(***************************************************************************)
RiskOutcomes == {"success", "timeout", "http-error", "network-error"}

\* the email FaaS is called after the try/catch, whatever the outcome
SendsEmail_Always(outcome) == TRUE

\* axios.post(EMAIL_FAAS_URL) follows riskData = riskResponse.data in the try block
SendsEmail(outcome) == outcome = "success"

RiskDone(i, outcome, body) ==
    /\ pc[i] = "awaitRisk"
    /\ IF outcome = "timeout"
       THEN clock - cur[i].now >= FaasTimeout
       ELSE clock - cur[i].now <= FaasTimeout
    /\ LET c == cur[i]
           cause == <<"telemetry", c.off>>
           n == Len(Emits(log[i]))
           riskData == IF outcome = "success" THEN body ELSE Null
           alert == Packet(i, n + 1, "notification", cause, Alert(c, clock, riskData))
       IN  /\ log' = [log EXCEPT ![i] = @
                        \o (IF outcome = "success"
                            THEN <<Ev("risk-ok", cause, body)>>
                            ELSE <<Ev("risk-failed", cause, outcome)>>)
                        \o (IF SendsEmail(outcome) THEN <<Ev("email-call", cause, body)>> ELSE <<>>)
                        \o [k \in 1..Len(AlertAfterRisk(outcome, alert)) |->
                               Ev("emit", cause, AlertAfterRisk(outcome, alert)[k])]]
           /\ net' = NetAfter(i, AlertAfterRisk(outcome, alert))
           /\ received' = ReceivedAfter(i, AlertAfterRisk(outcome, alert))
    /\ pc' = [pc EXCEPT ![i] = "idle"]
    /\ cur' = [cur EXCEPT ![i] = NoCur]
    /\ UNCHANGED <<clock, topic, stream, failed, truckState, alertHistory, redis, conn>>
    /\ UNCHANGED <<rabbit, queue, published>>
    /\ UNCHANGED startup
    /\ UNCHANGED orderVars
    /\ UNCHANGED rooms

(***************************************************************************)
(* The email FaaS answers or the call fails: the promise of the            *)
(* axios.post(EMAIL_FAAS_URL) settles; .catch logs a failure.              *)
(***************************************************************************)
EmailOutcomes == {"sent", "failed"}

\* the email calls of instance i that have not settled
EmailsPending(i) ==
    {p \in 1..Len(log[i]) :
        /\ log[i][p].op = "email-call"
        /\ \A q \in 1..Len(log[i]) :
              ~(log[i][q].op = "email-done" /\ log[i][q].cause = log[i][p].cause)}

EmailDone(i, outcome) ==
    /\ \E p \in EmailsPending(i) :
          log' = [log EXCEPT ![i] = Append(@, Ev("email-done", log[i][p].cause, outcome))]
    /\ UNCHANGED <<clock, topic, stream, pc, cur, failed, truckState, alertHistory, redis, net, conn,
                   received, rabbit, queue, published>>
    /\ UNCHANGED startup
    /\ UNCHANGED orderVars
    /\ UNCHANGED rooms

(***************************************************************************)
(* Time passes, but not beyond the timeout of a pending axios call.        *)
(***************************************************************************)
\* axios.post without the timeout option: the call may stay pending
Tick_NoTimeout(t) ==
    /\ t > clock
    /\ clock' = t
    /\ UNCHANGED <<topic, stream, pc, cur, failed, truckState, alertHistory, log, redis, net, conn, received>>
    /\ UNCHANGED <<rabbit, queue, published>>
    /\ UNCHANGED startup
    /\ UNCHANGED orderVars
    /\ UNCHANGED rooms

Tick(t) ==
    /\ t > clock
    /\ \A i \in Instances : pc[i] = "awaitRisk" => t <= cur[i].now + FaasTimeout
    /\ clock' = t
    /\ UNCHANGED <<topic, stream, pc, cur, failed, truckState, alertHistory, log, redis, net, conn, received>>
    /\ UNCHANGED <<rabbit, queue, published>>
    /\ UNCHANGED startup
    /\ UNCHANGED orderVars
    /\ UNCHANGED rooms

(***************************************************************************)
(* Start-up of the consumers.  server.listen has called startKafkaConsumer *)
(* and startRabbitConsumer; each of them ends in a running consumer or, in *)
(* its catch block, in setTimeout(itself, 5000).                           *)
(***************************************************************************)
RetryDelay == 5000

\* setImmediate(fn): the callback is due at once
SetTimeout_Immediate(i, fn) ==
    [timers EXCEPT ![i] = Append(@, [fn |-> fn, set |-> clock, due |-> clock])]

\* setTimeout(fn, 5000) of instance i
SetTimeout(i, fn) ==
    [timers EXCEPT ![i] = Append(@, [fn |-> fn, set |-> clock, due |-> clock + RetryDelay])]

\* kafkaConsumer.connect(), subscribe() and run() have resolved
KafkaStarted(i) ==
    /\ kafka[i] = "connecting"
    /\ up["kafka"]
    /\ kafka' = [kafka EXCEPT ![i] = "running"]
    /\ UNCHANGED <<clock, topic, stream, pc, cur, failed, truckState, alertHistory, log, redis, net,
                   conn, received, rabbit, queue, published, up, timers, failures>>
    /\ UNCHANGED orderVars
    /\ UNCHANGED rooms

\* connect() or subscribe() has rejected: the catch block of startKafkaConsumer
KafkaStartFails(i) ==
    /\ kafka[i] = "connecting"
    /\ ~up["kafka"]
    /\ failures[i]["kafka"] < MaxFailures
    /\ kafka' = [kafka EXCEPT ![i] = "waiting"]
    /\ timers' = SetTimeout(i, "startKafkaConsumer")
    /\ failures' = [failures EXCEPT ![i]["kafka"] = @ + 1]
    /\ UNCHANGED <<clock, topic, stream, pc, cur, failed, truckState, alertHistory, log, redis, net,
                   conn, received, rabbit, queue, published, up>>
    /\ UNCHANGED orderVars
    /\ UNCHANGED rooms

\* amqp.connect or a later await has rejected: the catch block of startRabbitConsumer
RabbitStartFails(i) ==
    /\ rabbit[i] = "connecting"
    /\ ~up["rabbit"]
    /\ failures[i]["rabbit"] < MaxFailures
    /\ rabbit' = [rabbit EXCEPT ![i] = "waiting"]
    /\ timers' = SetTimeout(i, "startRabbitConsumer")
    /\ failures' = [failures EXCEPT ![i]["rabbit"] = @ + 1]
    /\ UNCHANGED <<clock, topic, stream, pc, cur, failed, truckState, alertHistory, log, redis, net,
                   conn, received, queue, published, kafka, up>>
    /\ UNCHANGED orderVars
    /\ UNCHANGED rooms

\* the timer that is due first runs its callback
TimerFires(i) ==
    /\ timers[i] # <<>>
    /\ clock >= Head(timers[i]).due
    /\ timers' = [timers EXCEPT ![i] = Tail(@)]
    /\ IF Head(timers[i]).fn = "startKafkaConsumer"
       THEN kafka' = [kafka EXCEPT ![i] = "connecting"] /\ UNCHANGED rabbit
       ELSE rabbit' = [rabbit EXCEPT ![i] = "connecting"] /\ UNCHANGED kafka
    /\ UNCHANGED <<clock, topic, stream, pc, cur, failed, truckState, alertHistory, log, redis, net,
                   conn, received, queue, published, up, failures>>
    /\ UNCHANGED orderVars
    /\ UNCHANGED rooms

\* the service goes away.  A RabbitMQ connection that is open is closed and
\* its exclusive queue is deleted; no handler of the program runs.  A
\* running kafkajs consumer keeps its own reconnect loop.
ServiceDown(svc) ==
    /\ up[svc]
    /\ up' = [up EXCEPT ![svc] = FALSE]
    /\ IF svc = "rabbit"
       THEN /\ rabbit' = [i \in Instances |-> IF rabbit[i] = "consuming" THEN "lost" ELSE rabbit[i]]
            /\ queue' = [i \in Instances |-> IF rabbit[i] = "consuming" THEN <<>> ELSE queue[i]]
       ELSE UNCHANGED <<rabbit, queue>>
    /\ UNCHANGED <<clock, topic, stream, pc, cur, failed, truckState, alertHistory, log, redis, net,
                   conn, received, published, kafka, timers, failures>>
    /\ orderChannel' = IF svc = "rabbit" /\ orderChannel = "open" THEN "closed" ELSE orderChannel
    /\ UNCHANGED <<orders, orderLog>>
    /\ UNCHANGED rooms

ServiceUp(svc) ==
    /\ ~up[svc]
    /\ up' = [up EXCEPT ![svc] = TRUE]
    /\ UNCHANGED <<clock, topic, stream, pc, cur, failed, truckState, alertHistory, log, redis, net,
                   conn, received, rabbit, queue, published, kafka, timers, failures>>
    /\ UNCHANGED orderVars
    /\ UNCHANGED rooms

\* time passes until the next timer of instance i is due
TimerDue(i) ==
    /\ timers[i] # <<>>
    /\ Tick(Head(timers[i]).due)

(***************************************************************************)
(* One instance and its telemetry pipeline                                 *)
(***************************************************************************)
Ingest(i) ==
    \/ KafkaStarted(i)
    \/ \E v \in Bodies : Produce(i, v)
    \/ EachMessage(i)
    \/ \E o \in RiskOutcomes, b \in RiskBodies : RiskDone(i, o, b)

Next ==
    \/ Ingest("A")
    \/ \E t \in TimePoints : Tick(t)

Spec == Init /\ [][Next]_vars

(***************************************************************************)
(* Routing keys are strings: sequences of characters.                      *)
(***************************************************************************)
KeyOrderShipped == <<"o","r","d","e","r",".","s","h","i","p","p","e","d">>
StrOrder == <<"o","r","d","e","r">>
StrAlert == <<"a","l","e","r","t">>
UndefinedStr == <<Undefined>>

\* String.prototype.includes
Includes(str, sub) ==
    \E k \in 0..(Len(str) - Len(sub)) : SubSeq(str, k + 1, k + Len(sub)) = sub

\* String.prototype.split(sep), sep a single character
RECURSIVE Split(_, _)
Split(str, sep) ==
    IF \A k \in 1..Len(str) : str[k] # sep
    THEN <<str>>
    ELSE LET d == CHOOSE k \in 1..Len(str) : str[k] = sep /\ \A m \in 1..(k - 1) : str[m] # sep
         IN  <<SubSeq(str, 1, d - 1)>> \o Split(SubSeq(str, d + 1, Len(str)), sep)

\* routingKey.split('.')[0]
StatusOf_FirstSegment(routingKey) == Split(routingKey, ".")[1]

\* routingKey.split('.')[1]
StatusOf(routingKey) ==
    IF Len(Split(routingKey, ".")) >= 2 THEN Split(routingKey, ".")[2] ELSE UndefinedStr

EventContents == {[kind |-> "object", order |-> 1]}
BadContents == {[kind |-> "garbage", order |-> 0]}

(***************************************************************************)
(* Promise.all([pubClient.connect(), subClient.connect()]).then: the Redis *)
(* adapter replaces the in-memory adapter.                                 *)
(***************************************************************************)
RedisAttached(i) ==
    /\ redis[i] = "connecting"
    /\ up["redis"]
    /\ redis' = [redis EXCEPT ![i] = "attached"]
    /\ UNCHANGED <<clock, topic, stream, pc, cur, failed, truckState, alertHistory, log, net, conn,
                   received, rabbit, queue, published>>
    /\ UNCHANGED startup
    /\ UNCHANGED orderVars
    /\ UNCHANGED rooms

\* .catch(err => console.error('Redis Connection Error:', err)): one of the
\* connect() promises is rejected, the adapter stays the in-memory one
RedisConnectFails(i) ==
    /\ redis[i] = "connecting"
    /\ ~up["redis"]
    /\ redis' = [redis EXCEPT ![i] = "failed"]
    /\ UNCHANGED <<clock, topic, stream, pc, cur, failed, truckState, alertHistory, log, net, conn,
                   received, rabbit, queue, published>>
    /\ UNCHANGED startup
    /\ UNCHANGED orderVars
    /\ UNCHANGED rooms

\* the packet published last arrives first
BackplaneDeliver_Newest(j) ==
    /\ net[j] # <<>>
    /\ up["redis"]
    /\ received' = [s \in Sockets |->
                       IF conn[s] = j THEN Append(received[s], net[j][Len(net[j])]) ELSE received[s]]
    /\ net' = [net EXCEPT ![j] = SubSeq(@, 1, Len(@) - 1)]
    /\ UNCHANGED <<clock, topic, stream, pc, cur, failed, truckState, alertHistory, log, redis, conn,
                   rabbit, queue, published>>
    /\ UNCHANGED startup
    /\ UNCHANGED orderVars
    /\ UNCHANGED rooms

\* a packet published by another instance arrives from Redis and is sent to
\* the sockets connected to this instance
BackplaneDeliver(j) ==
    /\ net[j] # <<>>
    /\ up["redis"]
    /\ received' = [s \in Sockets |-> IF conn[s] = j THEN received[s] \o ForSocket(s, <<Head(net[j])>>) ELSE received[s]]
    /\ net' = [net EXCEPT ![j] = Tail(@)]
    /\ UNCHANGED <<clock, topic, stream, pc, cur, failed, truckState, alertHistory, log, redis, conn,
                   rabbit, queue, published>>
    /\ UNCHANGED startup
    /\ UNCHANGED orderVars
    /\ UNCHANGED rooms

(***************************************************************************)
(* io.on('connection'): the socket gets the cached truck states.           *)
(***************************************************************************)
Snapshot(i, s) ==
    [k \in 1..Len(truckState[i]) |->
        [src |-> i, n |-> 0, ch |-> "truck_update", cause |-> <<"connection", s>>,
         body |-> Values(truckState[i])[k], scope |-> Scope(<<"connection", s>>),
         to |-> {i}, audience |-> {s}]]

\* io.emit: the cached states go to every socket of the instance
SnapshotSent_Broadcast(i, s) ==
    [t \in Sockets |-> IF t = s \/ conn[t] = i THEN received[t] \o Snapshot(i, s) ELSE received[t]]

\* currentTrucks.forEach(t => socket.emit('truck_update', t))
SnapshotSent(i, s) == [received EXCEPT ![s] = @ \o Snapshot(i, s)]

Connect(s, i) ==
    /\ conn[s] = "new"
    /\ conn' = [conn EXCEPT ![s] = i]
    /\ received' = SnapshotSent(i, s)
    /\ UNCHANGED <<clock, topic, stream, pc, cur, failed, truckState, alertHistory, log, redis, net,
                   rabbit, queue, published>>
    /\ UNCHANGED startup
    /\ UNCHANGED orderVars
    /\ UNCHANGED rooms

Disconnect(s) ==
    /\ conn[s] \in Instances
    /\ conn' = [conn EXCEPT ![s] = "closed"]
    /\ UNCHANGED <<clock, topic, stream, pc, cur, failed, truckState, alertHistory, log, redis, net,
                   received, rabbit, queue, published>>
    /\ UNCHANGED startup
    /\ UNCHANGED orderVars
    /\ rooms' = [rooms EXCEPT ![s] = {}]

\* socket.on('join_room', (userId) => { socket.join(userId); })
JoinRoom(s, userId) ==
    /\ conn[s] \in Instances
    /\ rooms' = [rooms EXCEPT ![s] = @ \cup {userId}]
    /\ UNCHANGED <<clock, topic, stream, pc, cur, failed, truckState, alertHistory, log, redis, net,
                   conn, received, rabbit, queue, published>>
    /\ UNCHANGED startup
    /\ UNCHANGED orderVars

(***************************************************************************)
(* startRabbitConsumer up to channel.consume: the instance has bound its   *)
(* own exclusive queue to the exchange with '#'.                           *)
(***************************************************************************)
RabbitConnected(i) ==
    /\ rabbit[i] = "connecting"
    /\ up["rabbit"]
    /\ rabbit' = [rabbit EXCEPT ![i] = "consuming"]
    /\ UNCHANGED <<clock, topic, stream, pc, cur, failed, truckState, alertHistory, log, redis, net,
                   conn, received, queue, published>>
    /\ UNCHANGED startup
    /\ UNCHANGED orderVars
    /\ UNCHANGED rooms

\* the topic exchange copies an event to every queue bound at that moment
Exchange(routingKey, content) ==
    [i \in Instances |->
        IF rabbit[i] = "consuming"
        THEN Append(queue[i], [id |-> published + 1, routingKey |-> routingKey, content |-> content])
        ELSE queue[i]]

\* an event is published to the exchange pharmaguard_events
Publish(routingKey, content) ==
    /\ published < MaxEvents
    /\ published' = published + 1
    /\ queue' = Exchange(routingKey, content)
    /\ UNCHANGED <<clock, topic, stream, pc, cur, failed, truckState, alertHistory, log, redis, net,
                   conn, received, rabbit>>
    /\ UNCHANGED startup
    /\ UNCHANGED orderVars
    /\ UNCHANGED rooms

\* the packets of one event, in the order of the io.emit calls
EventPackets(i, n, msg) ==
    LET cause == <<"event", msg.id>>
        data == msg.content
        routed ==
            IF Includes(msg.routingKey, StrOrder)
            THEN <<Packet(i, n + 1, "order_update", cause, [status |-> StatusOf(msg.routingKey), data |-> data])>>
            ELSE IF Includes(msg.routingKey, StrAlert)
            THEN <<Packet(i, n + 1, "alert", cause, [type |-> "CRITICAL", data |-> data])>>
            ELSE <<>>
    IN  routed \o <<Packet(i, n + Len(routed) + 1, "notification", cause,
                          [title |-> msg.routingKey, body |-> data])>>

\* JSON.parse(msg.content.toString()) throws on text that is not JSON
EventThrows(msg) == ParseThrows(msg.content)

\* the callback runs in a try/catch that puts the message back (nack, requeue)
CallbackThrows_Requeue(i) == UNCHANGED <<rabbit, queue>>

\* the exception leaves the callback: amqplib, which called it while reading
\* the frames of the connection, closes the connection with that error;
\* noAck: the message is gone all the same
CallbackThrows(i) ==
    /\ rabbit' = [rabbit EXCEPT ![i] = "broken"]
    /\ queue' = [queue EXCEPT ![i] = Tail(@)]

\* the callback of channel.consume; noAck: the message is gone once handed over
Consume(i) ==
    /\ rabbit[i] = "consuming"
    /\ queue[i] # <<>>
    /\ LET msg == Head(queue[i])
           ps == EventPackets(i, Len(Emits(log[i])), msg)
           deliver == Ev("deliver", <<"event", msg.id>>, msg.routingKey)
       IN  IF EventThrows(msg)
           THEN /\ CallbackThrows(i)
                /\ log' = [log EXCEPT ![i] = Append(@, deliver)]
                /\ UNCHANGED <<net, received>>
           ELSE /\ queue' = [queue EXCEPT ![i] = Tail(@)]
                /\ log' = [log EXCEPT ![i] =
                              Append(@, deliver) \o [k \in 1..Len(ps) |-> Ev("emit", ps[k].cause, ps[k])]]
                /\ net' = NetAfter(i, ps)
                /\ received' = ReceivedAfter(i, ps)
                /\ UNCHANGED rabbit
    /\ UNCHANGED <<clock, topic, stream, pc, cur, failed, truckState, alertHistory, redis, conn, published>>
    /\ UNCHANGED startup
    /\ UNCHANGED orderVars
    /\ UNCHANGED rooms

(***************************************************************************)
(* The order service.  sequelize.sync().then: one call of setupRabbitMQ is *)
(* awaited, then the server listens; setupRabbitMQ retries by itself.      *)
(***************************************************************************)
KeyOrderCreated == <<"o","r","d","e","r",".","c","r","e","a","t","e","d">>
KeyOrderCancelled == <<"o","r","d","e","r",".","c","a","n","c","e","l","l","e","d">>
KeyOrderDelivered == <<"o","r","d","e","r",".","d","e","l","i","v","e","r","e","d">>

OrderUsers ==
    { [username |-> "ana", role |-> "PHARMACIST"],
      [username |-> "bob", role |-> "PHARMACIST"],
      [username |-> "max", role |-> "MANAGER"] }

OrderIds == 1..MaxOrders

\* amqp.connect, createChannel and assertExchange have resolved
OrderRabbitConnected ==
    /\ orderChannel \in {"starting", "connecting"}
    /\ up["rabbit"]
    /\ orderChannel' = "open"
    /\ UNCHANGED <<clock, topic, stream, pc, cur, failed, truckState, alertHistory, log, redis, net,
                   conn, received, rabbit, queue, published, orders, orderLog>>
    /\ UNCHANGED startup
    /\ UNCHANGED rooms

\* the catch block of setupRabbitMQ: setTimeout(setupRabbitMQ, 5000)
OrderRabbitFails ==
    /\ orderChannel \in {"starting", "connecting"}
    /\ ~up["rabbit"]
    /\ orderChannel' = "waiting"
    /\ UNCHANGED <<clock, topic, stream, pc, cur, failed, truckState, alertHistory, log, redis, net,
                   conn, received, rabbit, queue, published, orders, orderLog>>
    /\ UNCHANGED startup
    /\ UNCHANGED rooms

\* the timer of setupRabbitMQ fires
OrderRabbitRetry ==
    /\ orderChannel = "waiting"
    /\ orderChannel' = "connecting"
    /\ UNCHANGED <<clock, topic, stream, pc, cur, failed, truckState, alertHistory, log, redis, net,
                   conn, received, rabbit, queue, published, orders, orderLog>>
    /\ UNCHANGED startup
    /\ UNCHANGED rooms

\* app.listen has been called
Listening == orderChannel # "starting"

Responses == SelectSeq(orderLog, LAMBDA e : e.op = "respond")

OEv(op, route, id, arg) == [op |-> op, route |-> route, id |-> id, arg |-> arg]

\* the caller of a request: a user with a token of the auth service, or a
\* request without a token, or one with a token that jwt.verify refuses
NoToken == [username |-> "-", role |-> "NO-TOKEN"]
BadToken == [username |-> "-", role |-> "BAD-TOKEN"]
Callers == OrderUsers \cup {NoToken, BadToken}

\* authenticateToken: 401 without a token, 403 with an invalid one, 0 for next()
AuthenticateToken(u) ==
    IF u = NoToken THEN 401 ELSE IF u = BadToken THEN 403 ELSE 0

\* what follows the committed change: if (channel) channel.publish(...),
\* then the response; publish on a closed channel throws, and the catch
\* block of the route answers 500
Announce(u, route, id, status, key, ok) ==
    IF orderChannel = "open"
    THEN /\ orderLog' = orderLog \o <<OEv("request", route, id, u), OEv("commit", route, id, status),
                                       OEv("publish", route, id, key), OEv("respond", route, id, ok)>>
         /\ queue' = Exchange(key, [kind |-> "object", order |-> id])
         /\ published' = published + 1
    ELSE /\ orderLog' = orderLog \o <<OEv("request", route, id, u), OEv("commit", route, id, status),
                                       OEv("respond", route, id, IF orderChannel = "closed" THEN 500 ELSE ok)>>
         /\ UNCHANGED <<queue, published>>

\* the request is answered without a change
Refuse(u, route, id, code) ==
    /\ orderLog' = orderLog \o <<OEv("request", route, id, u), OEv("respond", route, id, code)>>
    /\ UNCHANGED <<orders, queue, published>>

CanRequest == Listening /\ Len(Responses) < MaxRequests

\* POST /orders
CreateOrder(u) ==
    /\ CanRequest
    /\ IF AuthenticateToken(u) # 0
       THEN Refuse(u, "create", 0, AuthenticateToken(u))
       ELSE /\ Len(orders) < MaxOrders
            /\ orders' = Append(orders, [status |-> "PENDING", createdBy |-> u.username, truckId |-> Null])
            /\ Announce(u, "create", Len(orders) + 1, "PENDING", KeyOrderCreated, 201)
    /\ UNCHANGED <<clock, topic, stream, pc, cur, failed, truckState, alertHistory, log, redis, net,
                   conn, received, rabbit, orderChannel>>
    /\ UNCHANGED startup
    /\ UNCHANGED rooms

\* everybody may cancel every order
MayCancel_Anyone(u, order) == TRUE

\* order.createdBy !== req.user.username && req.user.role !== 'MANAGER' is false
MayCancel(u, order) == order.createdBy = u.username \/ u.role = "MANAGER"

\* if (order.status === 'CANCELLED') return res.status(400)
MayDeliver(order) == order.status # "CANCELLED"

\* PUT /orders/:id/cancel
CancelOrder(u, id) ==
    /\ CanRequest
    /\ IF AuthenticateToken(u) # 0
       THEN Refuse(u, "cancel", id, AuthenticateToken(u))
       ELSE IF id > Len(orders)
       THEN Refuse(u, "cancel", id, 404)
       ELSE IF ~MayCancel(u, orders[id])
       THEN Refuse(u, "cancel", id, 403)
       ELSE /\ orders' = [orders EXCEPT ![id].status = "CANCELLED"]
            /\ Announce(u, "cancel", id, "CANCELLED", KeyOrderCancelled, 200)
    /\ UNCHANGED <<clock, topic, stream, pc, cur, failed, truckState, alertHistory, log, redis, net,
                   conn, received, rabbit, orderChannel>>
    /\ UNCHANGED startup
    /\ UNCHANGED rooms

\* PUT /orders/:id/dispatch
DispatchOrder(u, id, truckId) ==
    /\ CanRequest
    /\ IF AuthenticateToken(u) # 0
       THEN Refuse(u, "dispatch", id, AuthenticateToken(u))
       ELSE IF u.role # "MANAGER"
       THEN Refuse(u, "dispatch", id, 403)
       ELSE IF id > Len(orders)
       THEN Refuse(u, "dispatch", id, 404)
       ELSE /\ orders' = [orders EXCEPT ![id].status = "SHIPPED", ![id].truckId = truckId]
            /\ Announce(u, "dispatch", id, "SHIPPED", KeyOrderShipped, 200)
    /\ UNCHANGED <<clock, topic, stream, pc, cur, failed, truckState, alertHistory, log, redis, net,
                   conn, received, rabbit, orderChannel>>
    /\ UNCHANGED startup
    /\ UNCHANGED rooms

\* PUT /orders/:id/deliver
DeliverOrder(u, id) ==
    /\ CanRequest
    /\ IF AuthenticateToken(u) # 0
       THEN Refuse(u, "deliver", id, AuthenticateToken(u))
       ELSE IF u.role # "MANAGER"
       THEN Refuse(u, "deliver", id, 403)
       ELSE IF id > Len(orders)
       THEN Refuse(u, "deliver", id, 404)
       ELSE IF ~MayDeliver(orders[id])
       THEN Refuse(u, "deliver", id, 400)
       ELSE /\ orders' = [orders EXCEPT ![id].status = "DELIVERED"]
            /\ Announce(u, "deliver", id, "DELIVERED", KeyOrderDelivered, 200)
    /\ UNCHANGED <<clock, topic, stream, pc, cur, failed, truckState, alertHistory, log, redis, net,
                   conn, received, rabbit, orderChannel>>
    /\ UNCHANGED startup
    /\ UNCHANGED rooms

NextOrders ==
    \/ OrderRabbitConnected
    \/ OrderRabbitFails
    \/ OrderRabbitRetry
    \/ ServiceDown("rabbit")
    \/ ServiceUp("rabbit")
    \/ \E u \in Callers : CreateOrder(u)
    \/ \E u \in Callers, id \in OrderIds : CancelOrder(u, id)
    \/ \E u \in Callers, id \in OrderIds : DispatchOrder(u, id, "TRUCK-101")
    \/ \E u \in Callers, id \in OrderIds : DeliverOrder(u, id)

SpecOrders == Init /\ [][NextOrders]_vars

(***************************************************************************)
(* The cluster: the instances, their sockets, Redis and RabbitMQ           *)
(***************************************************************************)
ClusterBodies == {Record("TRUCK-101", 9, 1), Record("TRUCK-202", -2, 5)}
ClusterKeys == {KeyOrderShipped}
ClusterSockets == {"s1"}

\* the telemetry service writes one of the few messages of the cluster runs
ProduceCluster(i, v) ==
    /\ Len(topic) < MaxClusterMsgs
    /\ Produce(i, v)

NextCluster ==
    \/ \E i \in Instances : RedisAttached(i)
    \/ \E s \in ClusterSockets, i \in Instances : Connect(s, i)
    \/ \E s \in ClusterSockets : Disconnect(s)
    \/ \E i \in Instances : KafkaStarted(i)
    \/ \E i \in Instances, v \in ClusterBodies : ProduceCluster(i, v)
    \/ \E i \in Instances : EachMessage(i)
    \/ \E i \in Instances, o \in RiskOutcomes, b \in RiskBodies : RiskDone(i, o, b)
    \/ \E j \in Instances : BackplaneDeliver(j)

NextEvents ==
    \/ \E i \in Instances : RedisAttached(i)
    \/ \E i \in Instances : RabbitConnected(i)
    \/ \E s \in ClusterSockets, i \in Instances : Connect(s, i)
    \/ \E s \in ClusterSockets : Disconnect(s)
    \/ \E key \in ClusterKeys, content \in EventContents : Publish(key, content)
    \/ \E i \in Instances : Consume(i)
    \/ \E j \in Instances : BackplaneDeliver(j)

SpecEvents == Init /\ [][NextEvents]_vars

SpecCluster == Init /\ [][NextCluster]_vars

\* Redis delivers every published message to the subscribed instances
FairCluster == SpecCluster /\ \A j \in Instances : WF_vars(BackplaneDeliver(j))

(***************************************************************************)
(* Reading the history                                                     *)
(***************************************************************************)
Pos(i) == 1..Len(log[i])

IsAlertEmit(e) == e.op = "emit" /\ e.arg.ch = "notification" /\ e.cause[1] = "telemetry"

IsUpdateEmit(e) == e.op = "emit" /\ e.arg.ch = "truck_update"

\* a candidate alert: a record with at least one issue, fired or suppressed
IsCandidate(e) == e.op \in {"fire", "spam"}

ClearedBetween(i, truckId, p, q) ==
    \E k \in Pos(i) : p < k /\ k < q /\ log[i][k].op = "clear" /\ log[i][k].arg = truckId

\* the alert of the record with this cause has been broadcast, or its
\* handler is waiting for the risk FaaS
BroadcastOrPending(i, cause) ==
    \/ \E k \in Pos(i) : IsAlertEmit(log[i][k]) /\ log[i][k].cause = cause
    \/ pc[i] = "awaitRisk" /\ cur[i].off = cause[2]

(***************************************************************************)
(* C1: two alerts broadcast by one instance for the same truck with the    *)
(* same severity, with no nominal record of that truck processed between   *)
(* them, are at least 60000 ms apart.                                      *)
(***************************************************************************)
C1_SameSeverityAlertsApart ==
    \A i \in Instances : \A p, q \in Pos(i) :
        ( /\ p < q
          /\ IsAlertEmit(log[i][p]) /\ IsAlertEmit(log[i][q])
          /\ log[i][p].arg.body.truckId = log[i][q].arg.body.truckId
          /\ log[i][p].arg.body.type = log[i][q].arg.body.type
          /\ ~ClearedBetween(i, log[i][p].arg.body.truckId, p, q) )
        => log[i][q].arg.body.id - log[i][p].arg.body.id >= DebounceMs

(***************************************************************************)
(* C2: a candidate alert for truck e with severity s is suppressed only if *)
(* an alert with the same e and s was fired less than 60000 ms before it;  *)
(* otherwise it is fired and broadcast (after the risk call if CRITICAL).  *)
(***************************************************************************)
C2_FiresOutsideWindow ==
    \A i \in Instances : \A q \in Pos(i) :
        /\ log[i][q].op = "spam" =>
              \E p \in Pos(i) :
                  /\ p < q
                  /\ log[i][p].op = "fire"
                  /\ TruckIdOf(log[i][p].arg.data) = TruckIdOf(log[i][q].arg.data)
                  /\ log[i][p].arg.type = log[i][q].arg.type
                  /\ log[i][q].arg.now - log[i][p].arg.now < DebounceMs
        /\ log[i][q].op = "fire" => BroadcastOrPending(i, log[i][q].cause)

\* a WARNING fired exactly 60000 ms after the previous WARNING of the truck
C2_Witness ==
    \E p, q \in Pos("A") :
        /\ p < q
        /\ log["A"][p].op = "fire" /\ log["A"][q].op = "fire"
        /\ log["A"][p].arg.type = log["A"][q].arg.type
        /\ TruckIdOf(log["A"][p].arg.data) = TruckIdOf(log["A"][q].arg.data)
        /\ log["A"][q].arg.now - log["A"][p].arg.now = DebounceMs
        /\ ~ClearedBetween("A", TruckIdOf(log["A"][p].arg.data), p, q)
        /\ \E k \in Pos("A") : k > q /\ IsAlertEmit(log["A"][k]) /\ log["A"][k].cause = log["A"][q].cause

(***************************************************************************)
(* C3: after a nominal record of truck e, alertHistory has no entry for e  *)
(* until the next record of e, and the next anomalous record of e is fired *)
(* and broadcast whatever the time since the previous alert.               *)
(***************************************************************************)
C3_ClearResetsDebounce ==
    \A i \in Instances : \A p \in Pos(i) :
        log[i][p].op = "clear" =>
            LET e == log[i][p].arg
                later == {k \in Pos(i) : k > p /\ log[i][k].op = "store" /\ TruckIdOf(log[i][k].arg) = e}
                cands == {k \in Pos(i) : k > p /\ IsCandidate(log[i][k])
                                              /\ TruckIdOf(log[i][k].arg.data) = e}
            IN  /\ later = {} => ~Has(alertHistory[i], e)
                /\ \A k \in cands :
                      (\A k2 \in cands : k <= k2) =>
                          log[i][k].op = "fire" /\ BroadcastOrPending(i, log[i][k].cause)

\* an alert, a nominal record, and an alert of the same severity again
\* inside the window of the first
C3_Witness ==
    \E p, c, q \in Pos("A") :
        /\ p < c /\ c < q
        /\ log["A"][p].op = "fire" /\ log["A"][q].op = "fire"
        /\ log["A"][c].op = "clear" /\ log["A"][c].arg = TruckIdOf(log["A"][p].arg.data)
        /\ TruckIdOf(log["A"][q].arg.data) = log["A"][c].arg
        /\ log["A"][p].arg.type = log["A"][q].arg.type
        /\ log["A"][q].arg.now - log["A"][p].arg.now < DebounceMs
        /\ \E k \in Pos("A") : IsAlertEmit(log["A"][k]) /\ log["A"][k].cause = log["A"][q].cause

(***************************************************************************)
(* C7: for every fired CRITICAL alert whose handler has returned, exactly  *)
(* one alert packet was broadcast; it carries riskData iff the risk call   *)
(* succeeded, and a failed risk call is followed by the broadcast, not by  *)
(* an exception of the handler.                                            *)
(***************************************************************************)
AlertEmitsOf(i, cause) == {k \in Pos(i) : IsAlertEmit(log[i][k]) /\ log[i][k].cause = cause}

C7_CriticalBroadcastOnce ==
    \A i \in Instances : \A p \in Pos(i) :
        log[i][p].op = "risk-call" =>
            LET cause == log[i][p].cause
                ok == \E k \in Pos(i) : log[i][k].op = "risk-ok" /\ log[i][k].cause = cause
                bad == \E k \in Pos(i) : log[i][k].op = "risk-failed" /\ log[i][k].cause = cause
            IN  IF pc[i] = "awaitRisk" /\ cur[i].off = cause[2]
                THEN AlertEmitsOf(i, cause) = {} /\ ~ok /\ ~bad
                ELSE /\ Cardinality(AlertEmitsOf(i, cause)) = 1
                     /\ ok # bad
                     /\ \A k \in AlertEmitsOf(i, cause) :
                           /\ (log[i][k].arg.body.riskData # Null) <=> ok
                           /\ bad => log[i][k - 1].op = "risk-failed"

\* a CRITICAL alert broadcast without riskData after the risk call timed out
C7_Witness ==
    \E k \in Pos("A") :
        /\ k > 1
        /\ IsAlertEmit(log["A"][k])
        /\ log["A"][k].arg.body.type = "CRITICAL"
        /\ log["A"][k].arg.body.riskData = Null
        /\ log["A"][k - 1].op = "risk-failed"
        /\ log["A"][k - 1].arg = "timeout"
        /\ pc["A"] = "idle"

(***************************************************************************)
(* C8: a pending risk call does not keep the consumer from handling the    *)
(* next telemetry message: whenever a message waits while a risk call is   *)
(* pending, eachMessage can be called for it.                              *)
(***************************************************************************)
C8_IngestNotBlockedByRiskCall ==
    \A i \in Instances :
        (pc[i] = "awaitRisk" /\ stream[i] # <<>>) => CanIngest(i)

(***************************************************************************)
(* C9: a telemetry message that cannot be parsed or lacks required fields  *)
(* is discarded: the handler does not fail and nothing is stored or        *)
(* emitted for it.                                                         *)
(***************************************************************************)
C9_MalformedDiscarded ==
    \A i \in Instances :
        /\ ~failed[i]
        /\ \A p \in Pos(i) :
              log[i][p].cause[1] = "telemetry" => IsWellFormed(topic[log[i][p].cause[2]].value)

(***************************************************************************)
(* C10: for every well-formed telemetry record handled, exactly one        *)
(* truck_update packet carrying the record is broadcast, after the update  *)
(* of truckState and before any alert packet of the same record.           *)
(***************************************************************************)
Handled(k) ==
    /\ \A m \in 1..Len(stream[topic[k].consumer]) : stream[topic[k].consumer][m].offset # k

UpdateEmitsOf(i, cause) == {u \in Pos(i) : IsUpdateEmit(log[i][u]) /\ log[i][u].cause = cause}

C10_OneStateUpdatePerRecord ==
    \A k \in 1..Len(topic) :
        (IsWellFormed(topic[k].value) /\ Handled(k)) =>
            LET i == topic[k].consumer
                cause == <<"telemetry", k>>
            IN  /\ Cardinality(UpdateEmitsOf(i, cause)) = 1
                /\ \A j \in Instances \ {i} : UpdateEmitsOf(j, cause) = {}
                /\ \A u \in UpdateEmitsOf(i, cause) :
                      /\ log[i][u].arg.body = topic[k].value
                      /\ \E st \in Pos(i) : /\ st < u
                                             /\ log[i][st].op = "store"
                                             /\ log[i][st].cause = cause
                                             /\ log[i][st].arg = topic[k].value
                      /\ \A a \in AlertEmitsOf(i, cause) : u < a

\* a record that fired an alert, and a later record that was debounced
C10_Witness ==
    \E a, q \in Pos("A") :
        /\ a < q
        /\ IsAlertEmit(log["A"][a])
        /\ UpdateEmitsOf("A", log["A"][a].cause) # {}
        /\ log["A"][q].op = "spam"
        /\ UpdateEmitsOf("A", log["A"][q].cause) # {}

(***************************************************************************)
(* Packets and sockets                                                     *)
(***************************************************************************)
EmittedPackets(i) == {log[i][k].arg : k \in {m \in Pos(i) : log[i][m].op = "emit"}}

\* the broadcast packets sent to socket s (the snapshot has n = 0)
Copies(s, i, n) == {m \in 1..Len(received[s]) : received[s][m].src = i /\ received[s][m].n = n}

InFlightTo(j, p) == \E m \in 1..Len(net[j]) : net[j][m] = p

MaxPackets == 2 * MaxClusterMsgs

(***************************************************************************)
(* C4: a packet (alert or state update) emitted by one instance for a      *)
(* telemetry record, while the Redis adapters are attached, is eventually  *)
(* received by every socket that was then connected to another instance,   *)
(* unless the socket disconnects.                                          *)
(***************************************************************************)
Owed(s, i, n) ==
    /\ conn[s] \in Instances
    /\ \E p \in EmittedPackets(i) : p.n = n /\ s \in p.audience

C4_RemoteAlertReceived ==
    \A s \in ClusterSockets : \A i \in Instances : \A n \in 1..MaxPackets :
        Owed(s, i, n) ~> (Copies(s, i, n) # {} \/ conn[s] \notin Instances)

\* the socket on A has the alert of a record consumed by B
C4_Witness ==
    \E m \in 1..Len(received["s1"]) :
        /\ conn["s1"] = "A"
        /\ received["s1"][m].src = "B"
        /\ received["s1"][m].ch = "notification"
        /\ received["s1"][m].cause[1] = "telemetry"

(***************************************************************************)
(* C5: with every instance attached to Redis and consuming its own queue,  *)
(* a socket gets at most one order_update packet and one notification      *)
(* packet for one order.shipped event.                                     *)
(***************************************************************************)
EventCopies(s, ch, id) ==
    {m \in 1..Len(received[s]) : received[s][m].ch = ch /\ received[s][m].cause = <<"event", id>>}

C5_OnePacketPerEventAndSocket ==
    \A s \in Sockets : \A id \in 1..published :
        /\ Cardinality(EventCopies(s, "order_update", id)) <= 1
        /\ Cardinality(EventCopies(s, "notification", id)) <= 1

(***************************************************************************)
(* C6, as claimed: a packet is delivered exactly once to every socket      *)
(* connected at publish time to a subscribed instance, and never to a      *)
(* socket that connects after the publish.                                 *)
(***************************************************************************)
AtMostOnce ==
    \A s \in Sockets : \A i \in Instances : \A p \in EmittedPackets(i) :
        Cardinality(Copies(s, i, p.n)) <= 1

\* a socket of the audience that is still connected has the packet as soon
\* as its instance has handled it
AudienceServed ==
    \A s \in Sockets : \A i \in Instances : \A p \in EmittedPackets(i) :
        (s \in p.audience /\ conn[s] \in Instances /\ ~InFlightTo(conn[s], p))
            => Copies(s, i, p.n) # {}

C6_OnlyPublishTimeSockets ==
    /\ AtMostOnce
    /\ AudienceServed
    /\ \A s \in Sockets : \A i \in Instances : \A p \in EmittedPackets(i) :
          Copies(s, i, p.n) # {} => s \in p.audience

(***************************************************************************)
(* C6, amended: a packet is delivered at most once to a socket, only by    *)
(* the publisher or an instance subscribed at publish time, and exactly    *)
(* once to every socket connected to such an instance from the publish     *)
(* until that instance handles the packet; a socket that connects after    *)
(* the publish never gets it from the publisher itself.                    *)
(***************************************************************************)
C6_OncePerConnectedSocket ==
    /\ AtMostOnce
    /\ AudienceServed
    /\ \A s \in Sockets : \A i \in Instances : \A p \in EmittedPackets(i) :
          (Copies(s, i, p.n) # {} /\ conn[s] \in Instances) =>
              /\ conn[s] \in p.to
              /\ conn[s] = i => s \in p.audience

\* a socket that connected to A after B published, and got the packet
C6_Witness ==
    \E p \in EmittedPackets("B") :
        /\ conn["s1"] = "A"
        /\ "s1" \notin p.audience
        /\ Copies("s1", "B", p.n) # {}

(***************************************************************************)
(* C11: truckState of an instance has exactly one entry for every truck id *)
(* of a record the instance has stored, and the entry is the record stored *)
(* last for that id.                                                       *)
(***************************************************************************)
Stores(i) == {k \in Pos(i) : log[i][k].op = "store"}

LastStore(i, k) ==
    \A k2 \in Stores(i) : TruckIdOf(log[i][k2].arg) = TruckIdOf(log[i][k].arg) => k2 <= k

C11_LastWriterWins ==
    \A i \in Instances :
        /\ Keys(truckState[i]) = {TruckIdOf(log[i][k].arg) : k \in Stores(i)}
        /\ Cardinality(Keys(truckState[i])) = Len(truckState[i])
        /\ \A k \in Stores(i) :
              LastStore(i, k) => Get(truckState[i], TruckIdOf(log[i][k].arg)) = log[i][k].arg

\* two trucks in the store, one of them overwritten by a different record
C11_Witness ==
    /\ Len(truckState["A"]) = 2
    /\ \E p, q \in Stores("A") :
          /\ p < q
          /\ TruckIdOf(log["A"][p].arg) = TruckIdOf(log["A"][q].arg)
          /\ log["A"][p].arg # log["A"][q].arg
          /\ Get(truckState["A"], TruckIdOf(log["A"][q].arg)) = log["A"][q].arg

(***************************************************************************)
(* C12: the risk FaaS is called exactly once for every fired CRITICAL      *)
(* alert, also when the call fails, and never for a WARNING alert, a       *)
(* suppressed candidate or a nominal record.                               *)
(***************************************************************************)
RiskCallsOf(i, cause) == {k \in Pos(i) : log[i][k].op = "risk-call" /\ log[i][k].cause = cause}

C12_RiskCalledOncePerCritical ==
    \A i \in Instances : \A p \in Pos(i) :
        /\ log[i][p].op = "fire" =>
              Cardinality(RiskCallsOf(i, log[i][p].cause)) =
                  (IF log[i][p].arg.type = "CRITICAL" THEN 1 ELSE 0)
        /\ log[i][p].op \in {"spam", "clear"} => RiskCallsOf(i, log[i][p].cause) = {}
        /\ log[i][p].op = "risk-call" =>
              \E f \in Pos(i) : /\ f < p
                                /\ log[i][f].op = "fire"
                                /\ log[i][f].cause = log[i][p].cause
                                /\ log[i][f].arg.type = "CRITICAL"

\* a failed risk call, a WARNING alert and a suppressed CRITICAL candidate
C12_Witness ==
    \E f, w, q \in Pos("A") :
        /\ log["A"][f].op = "risk-failed"
        /\ log["A"][w].op = "fire" /\ log["A"][w].arg.type = "WARNING"
        /\ log["A"][q].op = "spam" /\ log["A"][q].arg.type = "CRITICAL"
        /\ pc["A"] = "idle"

(***************************************************************************)
(* One instance and its RabbitMQ consumer: the routing of the events       *)
(***************************************************************************)
KeyOrderAlert == <<"o","r","d","e","r",".","a","l","e","r","t">>
KeyAlertTemp == <<"a","l","e","r","t",".","t","e","m","p">>
KeyAlertOrder == <<"a","l","e","r","t",".","o","r","d","e","r">>
KeyInventoryReorder == <<"i","n","v","e","n","t","o","r","y",".","r","e","o","r","d","e","r">>
KeyStockLow == <<"s","t","o","c","k",".","l","o","w">>

RoutingKeys ==
    {KeyOrderShipped, KeyOrderAlert, KeyAlertTemp, KeyAlertOrder, KeyInventoryReorder, KeyStockLow}

NextRouting ==
    \/ RabbitConnected("A")
    \/ \E key \in RoutingKeys, content \in EventContents : Publish(key, content)
    \/ Consume("A")

SpecRouting == Init /\ [][NextRouting]_vars

\* the key starts with the text pre
HasPrefix(str, pre) == Len(str) >= Len(pre) /\ SubSeq(str, 1, Len(pre)) = pre

\* the text after the first n characters
After(str, n) == SubSeq(str, n + 1, Len(str))

OrderDot == StrOrder \o <<".">>
AlertDot == StrAlert \o <<".">>

\* order.<status>, the status one segment
IsOrderKey(key) ==
    /\ HasPrefix(key, OrderDot)
    /\ Len(key) > Len(OrderDot)
    /\ \A k \in (Len(OrderDot) + 1)..Len(key) : key[k] # "."

\* this step is the consume callback of instance i for the head of its queue
Consumed(i) == queue[i] # <<>> /\ queue'[i] = Tail(queue[i])

\* the packets emitted by instance i in this step
NewPackets(i) ==
    [k \in 1..(Len(Emits(log'[i])) - Len(Emits(log[i]))) |-> Emits(log'[i])[Len(Emits(log[i])) + k].arg]

OnChannel(ps, ch) == {k \in 1..Len(ps) : ps[k].ch = ch}

(***************************************************************************)
(* C13: for an event with a key order.<status> the consumer emits exactly  *)
(* one order_update packet with that status and the payload of the event,  *)
(* exactly one notification packet and no alert packet.                    *)
(***************************************************************************)
C13_OrderKeyRouting ==
    [][\A i \in Instances :
          (Consumed(i) /\ IsOrderKey(Head(queue[i]).routingKey)) =>
              LET msg == Head(queue[i])
                  ps == NewPackets(i)
              IN  /\ Cardinality(OnChannel(ps, "order_update")) = 1
                  /\ \A k \in OnChannel(ps, "order_update") :
                        /\ ps[k].body.status = After(msg.routingKey, Len(OrderDot))
                        /\ ps[k].body.data = msg.content
                  /\ Cardinality(OnChannel(ps, "notification")) = 1
                  /\ OnChannel(ps, "alert") = {}]_vars

\* the events order.shipped and order.alert have been consumed
C13_Witness ==
    \E p, q \in Pos("A") :
        /\ log["A"][p].op = "emit" /\ log["A"][p].arg.ch = "order_update"
        /\ log["A"][p].arg.body.status = After(KeyOrderShipped, Len(OrderDot))
        /\ log["A"][q].op = "emit" /\ log["A"][q].arg.ch = "order_update"
        /\ log["A"][q].arg.body.status = StrAlert

(***************************************************************************)
(* C14: for an event with a key that starts with "alert.", whatever        *)
(* follows, the consumer emits exactly one alert packet of type CRITICAL   *)
(* with the payload of the event, exactly one notification packet and no   *)
(* order_update packet.                                                    *)
(***************************************************************************)
C14_AlertKeyRouting ==
    [][\A i \in Instances :
          (Consumed(i) /\ HasPrefix(Head(queue[i]).routingKey, AlertDot)) =>
              LET msg == Head(queue[i])
                  ps == NewPackets(i)
              IN  /\ Cardinality(OnChannel(ps, "alert")) = 1
                  /\ \A k \in OnChannel(ps, "alert") :
                        /\ ps[k].body.type = "CRITICAL"
                        /\ ps[k].body.data = msg.content
                  /\ Cardinality(OnChannel(ps, "notification")) = 1
                  /\ OnChannel(ps, "order_update") = {}]_vars

(***************************************************************************)
(* C15: for an event with a key that starts neither with "order." nor with *)
(* "alert.", the consumer emits exactly one notification packet and no     *)
(* order_update or alert packet.                                           *)
(***************************************************************************)
C15_OtherKeyRouting ==
    [][\A i \in Instances :
          ( /\ Consumed(i)
            /\ ~HasPrefix(Head(queue[i]).routingKey, OrderDot)
            /\ ~HasPrefix(Head(queue[i]).routingKey, AlertDot) ) =>
              LET ps == NewPackets(i)
              IN  /\ Cardinality(OnChannel(ps, "notification")) = 1
                  /\ OnChannel(ps, "order_update") = {}
                  /\ OnChannel(ps, "alert") = {}]_vars

(***************************************************************************)
(* The instances without Redis, their telemetry and two sockets            *)
(***************************************************************************)
SnapshotBodies ==
    {Record("TRUCK-101", 8, 4), Record("TRUCK-101", 9, 1), Record("TRUCK-202", -2, 5)}

ProduceSnapshot(i, v) ==
    /\ Len(topic) < MaxSnapshotMsgs
    /\ Produce(i, v)

NextSnapshot ==
    \/ \E s \in Sockets, i \in Instances : Connect(s, i)
    \/ \E s \in Sockets : Disconnect(s)
    \/ \E i \in Instances : KafkaStarted(i)
    \/ \E i \in Instances, v \in SnapshotBodies : ProduceSnapshot(i, v)
    \/ \E i \in Instances : EachMessage(i)
    \/ \E i \in Instances, o \in RiskOutcomes, b \in RiskBodies : RiskDone(i, o, b)

SpecSnapshot == Init /\ [][NextSnapshot]_vars

(***************************************************************************)
(* C16: when a socket connects to an instance, it is sent one truck_update *)
(* packet for every truck in truckState of that instance, carrying the     *)
(* record stored last for the truck, and nothing else; no other socket is  *)
(* sent anything and nothing is broadcast.                                 *)
(***************************************************************************)
C16_SnapshotToConnectingSocketOnly ==
    [][\A s \in Sockets : \A i \in Instances :
          (conn[s] = "new" /\ conn'[s] = i) =>
              LET snap == [k \in 1..(Len(received'[s]) - Len(received[s])) |->
                              received'[s][Len(received[s]) + k]]
              IN  /\ SubSeq(received'[s], 1, Len(received[s])) = received[s]
                  /\ Len(snap) = Cardinality({TruckIdOf(log[i][k].arg) : k \in Stores(i)})
                  /\ \A k \in Stores(i) :
                        LastStore(i, k) =>
                            \E m \in 1..Len(snap) : /\ snap[m].ch = "truck_update"
                                                    /\ snap[m].body = log[i][k].arg
                  /\ \A t \in Sockets \ {s} : received'[t] = received[t]
                  /\ net' = net
                  /\ log' = log]_vars

\* s1 has the two trucks of A as its snapshot; s2, connected to A before
\* that, has the broadcast packets only
C16_Witness ==
    /\ conn["s1"] = "A" /\ conn["s2"] = "A"
    /\ Len(received["s1"]) = 2
    /\ received["s1"][1].cause = <<"connection", "s1">>
    /\ received["s1"][2].cause = <<"connection", "s1">>
    /\ received["s1"][1].body.truckId # received["s1"][2].body.truckId
    /\ Len(received["s2"]) = 2
    /\ \A m \in 1..2 : received["s2"][m].cause[1] = "telemetry"

(***************************************************************************)
(* C17: a socket that has two broadcast packets of one instance has them   *)
(* in the order in which that instance emitted them.                       *)
(***************************************************************************)
C17_PublisherOrderKept ==
    \A s \in Sockets : \A m1, m2 \in 1..Len(received[s]) :
        ( /\ m1 < m2
          /\ received[s][m1].src = received[s][m2].src
          /\ received[s][m1].n > 0
          /\ received[s][m2].n > 0 )
        => received[s][m1].n < received[s][m2].n

\* the socket on A has the state update and then the alert of a CRITICAL
\* record consumed by B, both through Redis
C17_Witness ==
    /\ conn["s1"] = "A"
    /\ \E m1, m2 \in 1..Len(received["s1"]) :
          /\ m1 < m2
          /\ received["s1"][m1].src = "B" /\ received["s1"][m1].ch = "truck_update"
          /\ received["s1"][m1].n = 1
          /\ received["s1"][m2].src = "B" /\ received["s1"][m2].ch = "notification"
          /\ received["s1"][m2].n = 2
          /\ received["s1"][m2].body.type = "CRITICAL"

(***************************************************************************)
(* One instance, Kafka and RabbitMQ coming and going                       *)
(***************************************************************************)
NextStartup ==
    \/ KafkaStarted("A")
    \/ KafkaStartFails("A")
    \/ RabbitConnected("A")
    \/ RabbitStartFails("A")
    \/ TimerFires("A")
    \/ TimerDue("A")
    \/ \E svc \in Services : ServiceDown(svc)
    \/ \E svc \in Services : ServiceUp(svc)

SpecStartup == Init /\ [][NextStartup]_vars

\* a promise that can resolve is resolved, a timer that is due fires, and
\* time passes
FairStartup ==
    /\ SpecStartup
    /\ WF_vars(KafkaStarted("A"))
    /\ WF_vars(RabbitConnected("A"))
    /\ WF_vars(TimerFires("A"))
    /\ WF_vars(TimerDue("A"))

TimersOf(i, fn) == {k \in 1..Len(timers[i]) : timers[i][k].fn = fn}

(***************************************************************************)
(* C18: when connecting or subscribing to Kafka fails, startKafkaConsumer  *)
(* is called again 5000 ms later or after that, never earlier; at most one *)
(* such retry is pending, and only while no attempt is in progress; once   *)
(* Kafka is available for good, the consumer eventually runs.              *)
(***************************************************************************)
C18_KafkaRetryEveryFiveSeconds ==
    /\ [](\A i \in Instances :
             /\ Cardinality(TimersOf(i, "startKafkaConsumer")) <= 1
             /\ (TimersOf(i, "startKafkaConsumer") # {}) <=> (kafka[i] = "waiting")
             /\ \A k \in TimersOf(i, "startKafkaConsumer") :
                   timers[i][k].due - timers[i][k].set = 5000)
    /\ [][\A i \in Instances :
             (kafka[i] = "waiting" /\ kafka'[i] = "connecting") =>
                 \E k \in TimersOf(i, "startKafkaConsumer") : clock' - timers[i][k].set >= 5000]_vars
    /\ ((<>[](up["kafka"])) => <>(kafka["A"] = "running"))

\* the consumer runs after two failed attempts, 10000 ms or more after the
\* first one
C18_Witness ==
    /\ kafka["A"] = "running"
    /\ failures["A"]["kafka"] = 2
    /\ clock >= 10000

(***************************************************************************)
(* C19: whenever the connection to RabbitMQ is lost, also after the        *)
(* consumer has been set up, the instance connects, declares its queue and *)
(* binds it again: once RabbitMQ is available for good, the instance is    *)
(* eventually consuming and stays so.                                      *)
(***************************************************************************)
C19_RabbitReconnectsAfterLoss ==
    (<>[](up["rabbit"])) => <>[](rabbit["A"] = "consuming")

(***************************************************************************)
(* C20: as long as the Redis adapter of an instance is not attached, no    *)
(* socket is connected to the instance and neither its Kafka consumer nor  *)
(* its RabbitMQ consumer is running.                                       *)
(***************************************************************************)
C20_NothingBeforeRedisAttached ==
    \A i \in Instances :
        redis[i] # "attached" =>
            /\ \A s \in Sockets : conn[s] # i
            /\ kafka[i] # "running"
            /\ rabbit[i] # "consuming"

(***************************************************************************)
(* One instance classifying records around the thresholds                  *)
(***************************************************************************)
ClassifyTemperatures == {1, 2, 5, 8, 9}
ClassifyVibrations == {3, 4, 5}

ClassifyBodies ==
    {Record("TRUCK-101", temp, vib) : temp \in ClassifyTemperatures, vib \in ClassifyVibrations}

ProduceClassify(i, v) ==
    /\ Len(topic) < MaxClassifyMsgs
    /\ Produce(i, v)

NextClassify ==
    \/ KafkaStarted("A")
    \/ \E v \in ClassifyBodies : ProduceClassify("A", v)
    \/ EachMessage("A")
    \/ \E o \in RiskOutcomes, b \in RiskBodies : RiskDone("A", o, b)
    \/ \E o \in EmailOutcomes : EmailDone("A", o)

SpecClassify == Init /\ [][NextClassify]_vars

\* the names of the issues of a candidate, in order
IssueNames(issues) == [k \in 1..Len(issues) |-> issues[k].issue]

(***************************************************************************)
(* C21: a record has the issue "Temperature deviation" iff its temperature *)
(* is below 2 or above 8, and the issue "High Shock Detected" iff its      *)
(* vibration is above 4; it is CRITICAL iff it has the shock issue,        *)
(* WARNING iff it has the temperature issue only, and nominal (no          *)
(* candidate alert) iff it has neither; the temperature issue is listed    *)
(* first.                                                                  *)
(***************************************************************************)
C21_ClassifierThresholds ==
    \A i \in Instances : \A p \in Stores(i) :
        LET d == log[i][p].arg
            cause == log[i][p].cause
            tempBad == d.temperature < 2 \/ d.temperature > 8
            shock == d.vibration > 4
            names == (IF tempBad THEN <<"Temperature deviation">> ELSE <<>>)
                     \o (IF shock THEN <<"High Shock Detected">> ELSE <<>>)
            severity == IF shock THEN "CRITICAL" ELSE "WARNING"
            cands == {k \in Pos(i) : IsCandidate(log[i][k]) /\ log[i][k].cause = cause}
            clears == {k \in Pos(i) : log[i][k].op = "clear" /\ log[i][k].cause = cause}
        IN  IF tempBad \/ shock
            THEN /\ clears = {}
                 /\ Cardinality(cands) = 1
                 /\ \A k \in cands : /\ IssueNames(log[i][k].arg.issues) = names
                                     /\ log[i][k].arg.type = severity
            ELSE cands = {} /\ Cardinality(clears) = 1

\* a record at both thresholds was nominal and a record beyond both gave
\* the two issues, temperature first
C21_Witness ==
    \E p, q \in Pos("A") :
        /\ log["A"][p].op = "clear"
        /\ \E st \in Stores("A") : /\ log["A"][st].cause = log["A"][p].cause
                                   /\ log["A"][st].arg.temperature = 8
                                   /\ log["A"][st].arg.vibration = 4
        /\ log["A"][q].op = "fire"
        /\ log["A"][q].arg.type = "CRITICAL"
        /\ IssueNames(log["A"][q].arg.issues) = <<"Temperature deviation", "High Shock Detected">>

(***************************************************************************)
(* C22: the alert of a fired CRITICAL record is broadcast at most 2000 ms  *)
(* after the risk call was started; no risk call is pending for longer,    *)
(* and a call that ends by the timeout gives an alert without riskData.    *)
(***************************************************************************)
C22_AlertWithinTimeout ==
    \A i \in Instances :
        /\ pc[i] = "awaitRisk" => clock - cur[i].now <= 2000
        /\ \A k \in Pos(i) :
              (IsAlertEmit(log[i][k]) /\ log[i][k].arg.body.type = "CRITICAL") =>
                  /\ log[i][k].arg.body.time - log[i][k].arg.body.id <= 2000
                  /\ (log[i][k - 1].op = "risk-failed" /\ log[i][k - 1].arg = "timeout") =>
                        /\ log[i][k].arg.body.time - log[i][k].arg.body.id = 2000
                        /\ log[i][k].arg.body.riskData = Null

\* a CRITICAL alert broadcast 2000 ms after its risk call, without riskData,
\* and time has gone on since
C22_Witness ==
    \E k \in Pos("A") :
        /\ IsAlertEmit(log["A"][k])
        /\ log["A"][k].arg.body.type = "CRITICAL"
        /\ log["A"][k].arg.body.time - log["A"][k].arg.body.id = 2000
        /\ log["A"][k].arg.body.riskData = Null
        /\ log["A"][k - 1].arg = "timeout"
        /\ clock > log["A"][k].arg.body.time

(***************************************************************************)
(* C23: the email FaaS is called at most once per record, only right after *)
(* the risk call of a fired CRITICAL alert has succeeded, and the alert    *)
(* follows at once with the riskData of that risk call; it is broadcast    *)
(* exactly once whether the email call succeeds, fails or stays pending.   *)
(***************************************************************************)
EmailCallsOf(i, cause) == {k \in Pos(i) : log[i][k].op = "email-call" /\ log[i][k].cause = cause}

C23_EmailFireAndForget ==
    \A i \in Instances : \A p \in Pos(i) :
        log[i][p].op = "email-call" =>
            LET cause == log[i][p].cause
            IN  /\ Cardinality(EmailCallsOf(i, cause)) = 1
                /\ log[i][p - 1].op = "risk-ok" /\ log[i][p - 1].cause = cause
                /\ \E f \in Pos(i) : /\ f < p
                                     /\ log[i][f].op = "fire"
                                     /\ log[i][f].cause = cause
                                     /\ log[i][f].arg.type = "CRITICAL"
                /\ AlertEmitsOf(i, cause) = {p + 1}
                /\ log[i][p + 1].arg.body.riskData = log[i][p - 1].arg

\* the email call of an alert failed after the broadcast, and the next
\* record was handled after that
C23_Witness ==
    \E p, q \in Pos("A") :
        /\ log["A"][p].op = "email-done" /\ log["A"][p].arg = "failed"
        /\ \E a \in AlertEmitsOf("A", log["A"][p].cause) :
              a < p /\ log["A"][a].arg.body.riskData # Null
        /\ Cardinality(AlertEmitsOf("A", log["A"][p].cause)) = 1
        /\ p < q
        /\ log["A"][q].op = "store"

(***************************************************************************)
(* Two instances and their RabbitMQ consumers, events with and without a   *)
(* JSON body                                                               *)
(***************************************************************************)
NextBadEvents ==
    \/ \E i \in Instances : RabbitConnected(i)
    \/ \E content \in EventContents \cup BadContents : Publish(KeyOrderShipped, content)
    \/ \E i \in Instances : Consume(i)

SpecBadEvents == Init /\ [][NextBadEvents]_vars

Deliveries(i, id) ==
    {k \in Pos(i) : log[i][k].op = "deliver" /\ log[i][k].cause = <<"event", id>>}

(***************************************************************************)
(* C24: the consume callback of an instance is called at most once for an  *)
(* event, also when the callback threw an exception for it; a message that *)
(* was handed over is no longer in the queue of the instance.              *)
(***************************************************************************)
C24_EventHandedOverAtMostOnce ==
    \A i \in Instances : \A id \in 1..published :
        /\ Cardinality(Deliveries(i, id)) <= 1
        /\ Deliveries(i, id) # {} => \A k \in 1..Len(queue[i]) : queue[i][k].id # id

\* the callback of A threw for an event that B has handled as well
C24_Witness ==
    \E id \in 1..published :
        /\ rabbit["A"] = "broken"
        /\ Deliveries("A", id) # {}
        /\ Deliveries("B", id) # {}
        /\ \A k \in Pos("A") : log["A"][k].cause = <<"event", id>> => log["A"][k].op = "deliver"

(***************************************************************************)
(* C27: an event whose body is not JSON is dropped and the consumer goes   *)
(* on: whatever has been handed to the consume callback of an instance,    *)
(* the instance is still consuming.                                        *)
(***************************************************************************)
C27_BadEventDroppedAlone ==
    \A i \in Instances :
        (\E k \in Pos(i) : log[i][k].op = "deliver") => rabbit[i] = "consuming"

(***************************************************************************)
(* The events of the order service                                         *)
(***************************************************************************)
RouteKey(route) ==
    CASE route = "create" -> KeyOrderCreated
      [] route = "cancel" -> KeyOrderCancelled
      [] route = "dispatch" -> KeyOrderShipped
      [] route = "deliver" -> KeyOrderDelivered

\* C25: every committed creation or status change of an order is followed,
\* in the same request, by the publication of one event with the routing key
\* of that change, whatever the state of the broker channel at that time
C25_EveryCommitPublishesOneEvent ==
    \A k \in 1..Len(orderLog) :
        orderLog[k].op = "commit" =>
            /\ k < Len(orderLog)
            /\ orderLog[k + 1].op = "publish"
            /\ orderLog[k + 1].route = orderLog[k].route
            /\ orderLog[k + 1].id = orderLog[k].id
            /\ orderLog[k + 1].arg = RouteKey(orderLog[k].route)

(***************************************************************************)
(* The in-memory state of the instances                                    *)
(***************************************************************************)
IsolationBodies == {Record("TRUCK-101", 9, 5)}

\* the order service publishes one of the few events of these runs
PublishIsolation(key, content) ==
    /\ published < MaxIsolationEvents
    /\ Publish(key, content)

\* the risk FaaS answers with an error status in these runs
NextIsolation ==
    \/ \E i \in Instances : RedisAttached(i)
    \/ \E i \in Instances : RabbitConnected(i)
    \/ \E i \in Instances : KafkaStarted(i)
    \/ \E i \in Instances, v \in IsolationBodies : ProduceCluster(i, v)
    \/ \E i \in Instances : EachMessage(i)
    \/ \E i \in Instances, b \in RiskBodies : RiskDone(i, "http-error", b)
    \/ \E key \in ClusterKeys, content \in EventContents : PublishIsolation(key, content)
    \/ \E i \in Instances : Consume(i)
    \/ \E j \in Instances : BackplaneDeliver(j)

SpecIsolation == Init /\ [][NextIsolation]_vars

\* instance i takes a telemetry record from its consumer in this step
HandlesTelemetry(i) == stream[i] # <<>> /\ stream'[i] = Tail(stream[i])

\* C26: the entity state store and the debounce ledger of an instance change
\* only in a step in which that instance itself handles a telemetry record;
\* the handling of a record or of a business event by another instance
\* leaves them as they are
C26_InstanceStateIsLocal ==
    [][\A j \in Instances :
          (truckState'[j] # truckState[j] \/ alertHistory'[j] # alertHistory[j])
              => HandlesTelemetry(j)]_vars

C26_Witness ==
    /\ Keys(truckState["A"]) # {}
    /\ Keys(alertHistory["A"]) # {}
    /\ Keys(truckState["B"]) = {}
    /\ Keys(alertHistory["B"]) = {}
    /\ \E k \in 1..Len(log["A"]) : log["A"][k].op = "deliver"
    /\ net["B"] # <<>>

(***************************************************************************)
(* The start of the Redis adapter                                          *)
(***************************************************************************)
NextBackplane ==
    \/ \E i \in Instances : RedisAttached(i)
    \/ \E i \in Instances : RedisConnectFails(i)
    \/ ServiceDown("redis")
    \/ ServiceUp("redis")
    \/ \E s \in ClusterSockets, i \in Instances : Connect(s, i)
    \/ \E s \in ClusterSockets : Disconnect(s)
    \/ \E i \in Instances : KafkaStarted(i)
    \/ \E i \in Instances, v \in IsolationBodies : ProduceCluster(i, v)
    \/ \E i \in Instances : EachMessage(i)
    \/ \E i \in Instances, o \in RiskOutcomes, b \in RiskBodies : RiskDone(i, o, b)
    \/ \E j \in Instances : BackplaneDeliver(j)

SpecBackplane == Init /\ [][NextBackplane]_vars

\* a connect() promise is settled one way or the other, and Redis delivers
\* what was published
FairBackplane ==
    /\ SpecBackplane
    /\ \A i \in Instances : WF_vars(RedisAttached(i))
    /\ \A i \in Instances : WF_vars(RedisConnectFails(i))
    /\ \A j \in Instances : WF_vars(BackplaneDeliver(j))

\* C28: if Redis is available from some time on, every instance attaches
\* the Redis adapter in the end, also an instance whose first connection
\* attempt failed
C28_RedisAdapterAttachedInTheEnd ==
    \A i \in Instances : (<>[](up["redis"])) => <>(redis[i] = "attached")

(***************************************************************************)
(* Suppressed candidates                                                    *)
(***************************************************************************)
\* the fired or suppressed candidates, and the nominal records, of a truck
AboutTruck(i, k, e) ==
    \/ IsCandidate(log[i][k]) /\ TruckIdOf(log[i][k].arg.data) = e
    \/ log[i][k].op = "clear" /\ log[i][k].arg = e

\* position p holds the last alert fired for truck e before position q
LastFiredBefore(i, p, q, e) ==
    /\ p < q
    /\ log[i][p].op = "fire"
    /\ TruckIdOf(log[i][p].arg.data) = e
    /\ \A k \in Pos(i) : (p < k /\ k < q /\ AboutTruck(i, k, e)) => log[i][k].op = "spam"

\* C29: a suppressed candidate leaves the debounce entry of its truck as the
\* last fired alert wrote it, and its record causes no risk call and no
\* alert packet; a candidate that comes 60000 ms or more after the last
\* fired alert of its truck is fired, however many candidates were
\* suppressed in between
C29_SuppressedLeavesLedger ==
    \A i \in Instances : \A q \in Pos(i) :
        IsCandidate(log[i][q]) =>
            LET e == TruckIdOf(log[i][q].arg.data)
            IN  \A p \in Pos(i) :
                    LastFiredBefore(i, p, q, e) =>
                        /\ log[i][q].op = "spam" =>
                              /\ \A k \in Pos(i) :
                                     log[i][k].cause = log[i][q].cause =>
                                         /\ log[i][k].op \notin {"fire", "risk-call", "email-call"}
                                         /\ ~IsAlertEmit(log[i][k])
                              /\ (\A k \in Pos(i) : k > q => ~AboutTruck(i, k, e)) =>
                                     /\ Has(alertHistory[i], e)
                                     /\ Get(alertHistory[i], e) =
                                            [timestamp |-> log[i][p].arg.now, type |-> log[i][p].arg.type]
                        /\ log[i][q].arg.now - log[i][p].arg.now >= DebounceMs => log[i][q].op = "fire"

\* an alert, a suppressed candidate 2000 ms later, and an alert again
\* 60000 ms after the first one
C29_Witness ==
    \E p, m, q \in Pos("A") :
        /\ p < m /\ m < q
        /\ log["A"][p].op = "fire" /\ log["A"][m].op = "spam" /\ log["A"][q].op = "fire"
        /\ LastFiredBefore("A", p, q, TruckIdOf(log["A"][q].arg.data))
        /\ TruckIdOf(log["A"][m].arg.data) = TruckIdOf(log["A"][q].arg.data)
        /\ log["A"][m].arg.now - log["A"][p].arg.now < DebounceMs
        /\ log["A"][q].arg.now - log["A"][p].arg.now = DebounceMs
        /\ log["A"][q].arg.now - log["A"][m].arg.now < DebounceMs

(***************************************************************************)
(* The debounce entry and the risk call                                    *)
(***************************************************************************)
RiskCalls(i) == {k \in Pos(i) : log[i][k].op = "risk-call"}

\* C30: while the risk call of a fired CRITICAL alert is awaited, the
\* debounce entry of its truck is already the one of this alert, and a later
\* CRITICAL record of the same truck, inside the 60000 ms window and with no
\* nominal record of the truck in between, causes no second risk call
C30_OneRiskCallPerWindow ==
    \A i \in Instances :
        /\ pc[i] = "awaitRisk" =>
              /\ Has(alertHistory[i], TruckIdOf(cur[i].data))
              /\ Get(alertHistory[i], TruckIdOf(cur[i].data)) =
                     [timestamp |-> cur[i].now, type |-> "CRITICAL"]
        /\ \A p, q \in RiskCalls(i) :
              ( /\ p < q
                /\ TruckIdOf(log[i][p].arg.data) = TruckIdOf(log[i][q].arg.data)
                /\ ~ClearedBetween(i, TruckIdOf(log[i][p].arg.data), p, q) )
              => log[i][q].arg.now - log[i][p].arg.now >= DebounceMs

(***************************************************************************)
(* The order of the alerts of a truck                                      *)
(***************************************************************************)
AlertEmits(i) == {k \in Pos(i) : IsAlertEmit(log[i][k])}

\* C31: the alerts that an instance broadcasts for one truck leave in the
\* order in which their records were taken from the stream, also when the
\* earlier one had to wait for the risk FaaS and the later one had not
C31_AlertsInIngestOrder ==
    \A i \in Instances : \A p, q \in AlertEmits(i) :
        (p < q /\ log[i][p].arg.body.truckId = log[i][q].arg.body.truckId)
            => log[i][p].cause[2] < log[i][q].cause[2]

\* a CRITICAL alert whose risk call ran into the timeout, and after it a
\* WARNING alert of the same truck, whose record was already in the stream
C31_Witness ==
    \E p, q \in AlertEmits("A") : \E f \in Pos("A") :
        /\ p < q
        /\ log["A"][p].arg.body.truckId = log["A"][q].arg.body.truckId
        /\ log["A"][p].arg.body.type = "CRITICAL"
        /\ log["A"][q].arg.body.type = "WARNING"
        /\ log["A"][f].op = "risk-failed"
        /\ log["A"][f].cause = log["A"][p].cause
        /\ log["A"][f].arg = "timeout"
        /\ log["A"][q].cause[2] = log["A"][p].cause[2] + 1

(***************************************************************************)
(* The ids of the alerts                                                   *)
(***************************************************************************)
\* C32: two alerts broadcast by one instance never carry the same id, also
\* when they are fired for different trucks within the same millisecond
C32_AlertIdsDistinct ==
    \A i \in Instances : \A p, q \in AlertEmits(i) :
        p # q => log[i][p].arg.body.id # log[i][q].arg.body.id

(***************************************************************************)
(* Rooms                                                                   *)
(***************************************************************************)
RoomBodies == {Record("TRUCK-101", 9, 1)}

ProduceRooms(i, v) ==
    /\ Len(topic) < MaxRoomMsgs
    /\ Produce(i, v)

PublishRooms(key, content) ==
    /\ published < MaxRoomEvents
    /\ Publish(key, content)

NextRooms ==
    \/ \E s \in Sockets : Connect(s, "A")
    \/ \E s \in Sockets : Disconnect(s)
    \/ \E s \in Sockets, userId \in Rooms : JoinRoom(s, userId)
    \/ KafkaStarted("A")
    \/ \E v \in RoomBodies : ProduceRooms("A", v)
    \/ EachMessage("A")
    \/ RabbitConnected("A")
    \/ \E key \in ClusterKeys, content \in EventContents : PublishRooms(key, content)
    \/ Consume("A")

SpecRooms == Init /\ [][NextRooms]_vars

\* what socket s is sent in this step
Sent(s) == SubSeq(received'[s], Len(received[s]) + 1, Len(received'[s]))

\* C33: every packet that the telemetry handler or the event callback emits
\* addresses all sockets; two sockets connected to the same instance are
\* sent the same packets in every step of these handlers, whatever rooms
\* each of them has joined, and join_room itself sends and withdraws nothing
C33_RoomsDoNotMatter ==
    [][/\ \A i \in Instances : \A k \in 1..Len(log'[i]) :
              log'[i][k].op = "emit" => log'[i][k].arg.scope = "ALL"
       /\ \A s \in Sockets :
              conn'[s] = conn[s] => SubSeq(received'[s], 1, Len(received[s])) = received[s]
       /\ \A s, t \in Sockets :
              (conn[s] \in Instances /\ conn[t] = conn[s] /\ conn' = conn) => Sent(s) = Sent(t)
       /\ rooms' # rooms => (received' = received /\ net' = net)]_vars

\* two sockets of one instance, in different rooms, with the same packets of
\* a telemetry record and of a business event
C33_Witness ==
    /\ conn["s1"] = "A" /\ conn["s2"] = "A"
    /\ rooms["s1"] = {"ana"} /\ rooms["s2"] = {}
    /\ received["s1"] = received["s2"]
    /\ \E k \in 1..Len(received["s1"]) : received["s1"][k].cause[1] = "telemetry"
    /\ \E k \in 1..Len(received["s1"]) : received["s1"][k].cause[1] = "event"

(***************************************************************************)
(* The snapshot in the cluster                                             *)
(***************************************************************************)
\* the trucks of which some instance has broadcast a truck_update packet to
\* every instance of the cluster
BroadcastTrucks ==
    { e \in Trucks :
          \E j \in Instances : \E k \in Pos(j) :
              /\ IsUpdateEmit(log[j][k])
              /\ log[j][k].arg.to = Instances
              /\ TruckIdOf(log[j][k].arg.body) = e }

\* C34: the snapshot sent to a socket that connects to an instance has a
\* truck_update packet for every truck of which a truck_update packet has
\* been broadcast to the whole cluster before
C34_SnapshotCoversCluster ==
    [][\A s \in Sockets : \A i \in Instances :
          (conn[s] = "new" /\ conn'[s] = i) =>
              \A e \in BroadcastTrucks :
                  \E m \in 1..Len(received'[s]) :
                      /\ m > Len(received[s])
                      /\ received'[s][m].ch = "truck_update"
                      /\ TruckIdOf(received'[s][m].body) = e]_vars

(***************************************************************************)
(* The status of an order                                                  *)
(***************************************************************************)
\* PENDING -> SHIPPED -> DELIVERED (or CANCELLED)
StatusMoves ==
    { <<"PENDING", "SHIPPED">>, <<"SHIPPED", "DELIVERED">>,
      <<"PENDING", "CANCELLED">>, <<"SHIPPED", "CANCELLED">> }

\* the commits of a status of order id, as positions of orderLog
CommitsOf(id, status) ==
    { k \in 1..Len(orderLog) : /\ orderLog[k].op = "commit"
                               /\ orderLog[k].id = id
                               /\ orderLog[k].arg = status }

\* C35: the status of an order changes only from PENDING to SHIPPED, from
\* SHIPPED to DELIVERED, and from PENDING or SHIPPED to CANCELLED; a
\* DELIVERED or CANCELLED order keeps its status
C35_StatusMovesForward ==
    [][\A id \in 1..Len(orders) :
          orders'[id].status # orders[id].status
              => <<orders[id].status, orders'[id].status>> \in StatusMoves]_vars

\* C36: after CANCELLED has been committed for an order, DELIVERED is never
\* committed for it and no order.delivered event is published for it
C36_CancelledNeverDelivered ==
    \A id \in 1..Len(orders) : \A k \in CommitsOf(id, "CANCELLED") :
        \A m \in 1..Len(orderLog) :
            (m > k /\ orderLog[m].id = id /\ orderLog[m].op \in {"commit", "publish"})
                => orderLog[m].route # "deliver"

(***************************************************************************)
(* Who may change an order                                                 *)
(***************************************************************************)
\* the requests of these runs: the broker is there from the start
NextAuth ==
    \/ OrderRabbitConnected
    \/ \E u \in Callers : Len(Responses) < MaxAuthRequests /\ CreateOrder(u)
    \/ \E u \in Callers, id \in OrderIds : Len(Responses) < MaxAuthRequests /\ CancelOrder(u, id)
    \/ \E u \in Callers, id \in OrderIds :
           Len(Responses) < MaxAuthRequests /\ DispatchOrder(u, id, "TRUCK-101")
    \/ \E u \in Callers, id \in OrderIds : Len(Responses) < MaxAuthRequests /\ DeliverOrder(u, id)

SpecAuth == Init /\ [][NextAuth]_vars

\* what the request handled in this step wrote to the history
Written == SubSeq(orderLog', Len(orderLog) + 1, Len(orderLog'))

Rejections == {400, 401, 403, 404}

\* C37: a request that commits a change or publishes an event on the
\* dispatch or deliver route comes from a MANAGER, on the cancel route from
\* the creator of the order or a MANAGER; a request answered 400, 401, 403
\* or 404 leaves the orders as they are and publishes nothing
C37_OnlyAuthorizedChanges ==
    [][orderLog' # orderLog =>
          LET req == Written[1]
              resp == Written[Len(Written)]
              acts == \E k \in 1..Len(Written) : Written[k].op \in {"commit", "publish"}
          IN  /\ req.op = "request" /\ resp.op = "respond"
              /\ (acts \/ orders' # orders \/ published' # published) =>
                    /\ resp.arg \notin Rejections
                    /\ req.arg \in OrderUsers
                    /\ req.route \in {"dispatch", "deliver"} => req.arg.role = "MANAGER"
                    /\ req.route = "cancel" =>
                          \/ req.arg.role = "MANAGER"
                          \/ orders[req.id].createdBy = req.arg.username
              /\ resp.arg \in Rejections =>
                    /\ orders' = orders
                    /\ published' = published
                    /\ queue' = queue
                    /\ ~acts]_vars

\* a PHARMACIST was refused the order of another one, and the creator has
\* cancelled the order after that
C37_Witness ==
    \E a, c \in 1..Len(orderLog) :
        /\ orderLog[a].op = "respond" /\ orderLog[a].route = "cancel" /\ orderLog[a].arg = 403
        /\ orderLog[a - 1].op = "request" /\ orderLog[a - 1].arg.role = "PHARMACIST"
        /\ c > a
        /\ orderLog[c].op = "commit" /\ orderLog[c].route = "cancel"
        /\ orderLog[c - 1].arg.role = "PHARMACIST"
        /\ orders[1].status = "CANCELLED"

====
